---------------------------- MODULE Spec2Model ----------------------------
(***************************************************************************)
(* A model of streamer/input_configuration.py: the construction of an      *)
(* Input record (field defaults, auto-detection of missing fields, the     *)
(* required-field and disallowed-field rules) and the accessors of a       *)
(* constructed record (set_pipe, get_path_for_transcode,                   *)
(* get_stream_specifier, get_input_args).                                  *)
(*                                                                         *)
(* Encoding of Python values.  A value that may be None is a sequence of   *)
(* length at most one: None is << >> and the value v is << v >>.  Strings  *)
(* are TLA+ strings, a float is its integer value (only whole frame rates  *)
(* are drawn), a list is a sequence.  The field extra_input_args and its   *)
(* shlex tokenisation (line 249) take no part in any rule or accessor      *)
(* modelled here and are left out.                                         *)
(***************************************************************************)
EXTENDS Integers, Sequences, FiniteSets, TLC

VARIABLES
  pc,       \* "new": before Input(...); "constructed"; "failed": __init__ raised
  raw,      \* the raw mapping given to the constructor
  self,     \* the fields of the record
  err,      \* the exception raised by the constructor, or NoErr
  probed,   \* per detectable field: << >> if autodetect was not invoked, else << returned value >>
  pipe,     \* self._pipe
  pipeSet,  \* history: TRUE once set_pipe has been called
  ret       \* the last method call: [op, status, val]

vars == <<pc, raw, self, err, probed, pipe, pipeSet, ret>>

-----------------------------------------------------------------------------
(* Bounds and the value sets inputs are drawn from *)

MaxTrack == 2

None == << >>
Some(v) == << v >>

Opt(S) == {None} \cup {Some(v) : v \in S}

InputTypes == {"file", "looped_file", "webcam", "raw_images", "external_command"}

MediaTypes == {"audio", "video", "text"}

Names == {"in.mp4"}
FrameRates == {30}
Resolutions == {"1080p"}
Languages == {"en"}
Times == {"", "5"}
FilterLists == {<< >>, <<"pad=1280:720:20:20">>}
TrackNums == 0..MaxTrack
PipePaths == {"", "/tmp/pipe"}
Platforms == {"Linux", "Darwin"}

RawInputs ==
  [input_type    : Opt(InputTypes),
   name          : {Some(n) : n \in Names},
   media_type    : Opt(MediaTypes),
   frame_rate    : Opt(FrameRates),
   resolution    : Opt(Resolutions),
   track_num     : Opt(TrackNums),
   is_interlaced : Opt(BOOLEAN),
   language      : Opt(Languages),
   start_time    : Opt(Times),
   end_time      : Opt(Times),
   filters       : Opt(FilterLists)]

(* What the autodetect functions return: a detected value or None.  Only    *)
(* the video branch calls get_interlaced, get_frame_rate and                *)
(* get_resolution and only the audio/text branch calls get_language, so the *)
(* answers of the functions a media type never calls are not enumerated.    *)
ProbeResults(media_type) ==
  [is_interlaced : IF media_type = Some("video") THEN Opt(BOOLEAN) ELSE {None},
   frame_rate    : IF media_type = Some("video") THEN Opt({24}) ELSE {None},
   resolution    : IF media_type = Some("video") THEN Opt({"720p"}) ELSE {None},
   language      : IF media_type \in {Some("audio"), Some("text")}
                   THEN Opt({"", "fr"}) ELSE {None}]

(* The raw inputs of the records whose methods are exercised: every input   *)
(* type, media type and track number; the optional fields no method reads   *)
(* are omitted.                                                             *)
CallInputs ==
  [input_type    : Opt(InputTypes),
   name          : {Some(n) : n \in Names},
   media_type    : Opt(MediaTypes),
   frame_rate    : Opt(FrameRates),
   resolution    : Opt(Resolutions),
   track_num     : Opt(TrackNums),
   is_interlaced : {None},
   language      : {None},
   start_time    : {None},
   end_time      : {None},
   filters       : {None}]

-----------------------------------------------------------------------------
(* Python helpers *)

StrFields == {"name", "resolution", "language", "start_time", "end_time"}
EnumFields == {"input_type", "media_type"}

(* bool(getattr(self, name)): Python truthiness of a field's value *)
Truthy(name, v) ==
  /\ v # None
  /\ CASE name \in StrFields -> v[1] # ""
       [] name \in EnumFields -> TRUE
       [] name \in {"frame_rate", "track_num"} -> v[1] # 0
       [] name = "is_interlaced" -> v[1]
       [] name = "filters" -> Len(v[1]) > 0

(* a or b, for strings that may be None *)
StrOr(a, b) == IF a # None /\ a[1] # "" THEN a ELSE b

DigitStr(d) ==
  CASE d = 0 -> "0" [] d = 1 -> "1" [] d = 2 -> "2" [] d = 3 -> "3" [] d = 4 -> "4"
    [] d = 5 -> "5" [] d = 6 -> "6" [] d = 7 -> "7" [] d = 8 -> "8" [] d = 9 -> "9"

RECURSIVE NatStr(_)
NatStr(n) == IF n < 10 THEN DigitStr(n) ELSE NatStr(n \div 10) \o DigitStr(n % 10)

(* str(n) and '{}'.format(n) of an int *)
IntStr(n) == IF n < 0 THEN "-" \o NatStr(0 - n) ELSE NatStr(n)

-----------------------------------------------------------------------------
(* Errors *)

NoErr == [kind |-> "none", field |-> ""]
MissingRequiredField(name) == [kind |-> "MissingRequiredField", field |-> name]
MalformedField(name) == [kind |-> "MalformedField", field |-> name]

NoObject ==
  [input_type |-> None, name |-> None, media_type |-> None, frame_rate |-> None,
   resolution |-> None, track_num |-> None, is_interlaced |-> None,
   language |-> None, start_time |-> None, end_time |-> None, filters |-> None]

NotProbed ==
  [is_interlaced |-> << >>, frame_rate |-> << >>, resolution |-> << >>, language |-> << >>]

Raise(st, e) == IF st.err = NoErr THEN [st EXCEPT !.err = e] ELSE st


-----------------------------------------------------------------------------
(* The declared fields: configuration.Field(type, default=..., required=...) *)

FieldDefault ==
  [input_type |-> Some("file"), name |-> None, media_type |-> None,
   frame_rate |-> None, resolution |-> None, track_num |-> Some(0),
   is_interlaced |-> None, language |-> None, start_time |-> None,
   end_time |-> None, filters |-> Some(<< >>)]

FieldRequired == {"name", "media_type"}

FieldNames == DOMAIN FieldDefault

(* configuration.Base.__init__: every field takes the raw value if the key   *)
(* is present and its declared default otherwise; a required field that is   *)
(* absent raises MissingRequiredField.                                       *)
Base_init(r) ==
  LET rec == [f \in FieldNames |-> IF r[f] # None THEN r[f] ELSE FieldDefault[f]]
      missing == {f \in FieldRequired : rec[f] = None}
  IN  IF missing # {}
      THEN [rec |-> NoObject, probed |-> NotProbed,
            err |-> MissingRequiredField(CHOOSE f \in missing : TRUE)]
      ELSE [rec |-> rec, probed |-> NotProbed, err |-> NoErr]

-----------------------------------------------------------------------------
(* Input.__init__.  A construction in progress is st = [rec, probed, err];   *)
(* once err is set (an exception is in flight) no later statement acts.      *)

(* require_field(name) *)
require_field(st, name) ==
  IF st.err = NoErr /\ st.rec[name] = None
  THEN Raise(st, MissingRequiredField(name))
  ELSE st

(* disallow_field(name, reason) *)
disallow_field(st, name) ==
  IF st.err = NoErr /\ Truthy(name, st.rec[name])
  THEN Raise(st, MalformedField(name))
  ELSE st

(* self.<name> = autodetect.get_<name>(self), recorded as an invocation *)
Detect(st, name, value) ==
  [st EXCEPT !.rec[name] = value, !.probed[name] = << value >>]

(* Mutant: "if not self.is_interlaced" in place of "is None" *)
fill_is_interlaced_falsy(st, probe) ==
  IF st.err = NoErr /\ ~Truthy("is_interlaced", st.rec.is_interlaced)
  THEN Detect(st, "is_interlaced", probe.is_interlaced)
  ELSE st

(* if self.is_interlaced is None: self.is_interlaced = autodetect.get_interlaced(self) *)
fill_is_interlaced(st, probe) ==
  IF st.err = NoErr /\ st.rec.is_interlaced = None
  THEN Detect(st, "is_interlaced", probe.is_interlaced)
  ELSE st

(* if self.frame_rate is None: self.frame_rate = autodetect.get_frame_rate(self) *)
fill_frame_rate(st, probe) ==
  IF st.err = NoErr /\ st.rec.frame_rate = None
  THEN Detect(st, "frame_rate", probe.frame_rate)
  ELSE st

(* if self.resolution is None: self.resolution = autodetect.get_resolution(self) *)
fill_resolution(st, probe) ==
  IF st.err = NoErr /\ st.rec.resolution = None
  THEN Detect(st, "resolution", probe.resolution)
  ELSE st

(* Mutant: the "or 'und'" default is dropped *)
fill_language_no_default(st, probe) ==
  IF st.err = NoErr /\ st.rec.language = None
  THEN Detect(st, "language", probe.language)
  ELSE st

(* if self.language is None: self.language = autodetect.get_language(self) or 'und' *)
fill_language(st, probe) ==
  IF st.err = NoErr /\ st.rec.language = None
  THEN [st EXCEPT !.rec.language = StrOr(probe.language, Some("und")),
                  !.probed.language = << probe.language >>]
  ELSE st

(* Mutant: require_field('frame_rate') is dropped *)
video_rules_no_frame_rate_check(st, probe) ==
  IF st.err = NoErr /\ st.rec.media_type = Some("video")
  THEN LET s1 == fill_is_interlaced(st, probe)
           s2 == fill_frame_rate(s1, probe)
           s3 == require_field(fill_resolution(s2, probe), "resolution")
       IN  s3
  ELSE st

(* if self.media_type == MediaType.VIDEO: ... *)
video_rules(st, probe) ==
  IF st.err = NoErr /\ st.rec.media_type = Some("video")
  THEN LET s1 == fill_is_interlaced(st, probe)
           s2 == require_field(fill_frame_rate(s1, probe), "frame_rate")
           s3 == require_field(fill_resolution(s2, probe), "resolution")
       IN  s3
  ELSE st

(* if self.media_type == MediaType.AUDIO or self.media_type == MediaType.TEXT: ... *)
language_rules(st, probe) ==
  IF st.err = NoErr /\ (st.rec.media_type = Some("audio") \/ st.rec.media_type = Some("text"))
  THEN fill_language(st, probe)
  ELSE st

(* Mutant: disallow_field('filters', reason) is dropped *)
text_rules_filters_allowed(st) ==
  IF st.err = NoErr /\ st.rec.media_type = Some("text")
  THEN LET s1 == IF st.rec.input_type # Some("file")
                 THEN disallow_field(st, "input_type")
                 ELSE st
           s2 == disallow_field(s1, "start_time")
           s3 == disallow_field(s2, "end_time")
       IN  s3
  ELSE st

(* if self.media_type == MediaType.TEXT: ... *)
text_rules(st) ==
  IF st.err = NoErr /\ st.rec.media_type = Some("text")
  THEN LET s1 == IF st.rec.input_type # Some("file")
                 THEN disallow_field(st, "input_type")
                 ELSE st
           s2 == disallow_field(s1, "start_time")
           s3 == disallow_field(s2, "end_time")
           s4 == disallow_field(s3, "filters")
       IN  s4
  ELSE st

(* Mutant: the media type test is "== MediaType.TEXT" in place of "!= MediaType.VIDEO" *)
raw_images_rules_text_only(st) ==
  IF st.err = NoErr /\ st.rec.input_type = Some("raw_images")
  THEN IF st.rec.media_type = Some("text")
       THEN disallow_field(st, "media_type")
       ELSE st
  ELSE st

(* if self.input_type == InputType.RAW_IMAGES: ... *)
raw_images_rules(st) ==
  IF st.err = NoErr /\ st.rec.input_type = Some("raw_images")
  THEN IF st.rec.media_type # Some("video")
       THEN disallow_field(st, "media_type")
       ELSE st
  ELSE st

(* Mutant: disallow_field('end_time', reason) is dropped *)
non_file_rules_end_time_allowed(st) ==
  IF st.err = NoErr /\ st.rec.input_type # Some("file")
  THEN disallow_field(st, "start_time")
  ELSE st

(* if self.input_type != InputType.FILE: ... *)
non_file_rules(st) ==
  IF st.err = NoErr /\ st.rec.input_type # Some("file")
  THEN disallow_field(disallow_field(st, "start_time"), "end_time")
  ELSE st

(* Input.__init__(raw), with probe what the autodetect functions return *)
Input_init(r, probe) ==
  LET s0 == Base_init(r)
      s1 == video_rules(s0, probe)
      s2 == language_rules(s1, probe)
      s3 == text_rules(s2)
      s4 == raw_images_rules(s3)
      s5 == non_file_rules(s4)
  IN  s5

-----------------------------------------------------------------------------
(* Methods of a constructed record *)

(* Mutant: "self._pipe if self._pipe is not None else self.name" *)
get_path_for_transcode_is_none(rec, p) == IF p # None THEN p ELSE rec.name

(* return self._pipe or self.name *)
get_path_for_transcode(rec, p) == StrOr(p, rec.name)

(* Mutant: the text branch formats with the audio letter *)
get_stream_specifier_text_as_audio(rec) ==
  IF rec.media_type = Some("video")
  THEN [status |-> "ok", val |-> "v:" \o IntStr(rec.track_num[1])]
  ELSE [status |-> "ok", val |-> "a:" \o IntStr(rec.track_num[1])]

(* get_stream_specifier: the value returned, or the failed assertion *)
get_stream_specifier(rec) ==
  IF rec.media_type = Some("video")
  THEN [status |-> "ok", val |-> "v:" \o IntStr(rec.track_num[1])]
  ELSE IF rec.media_type = Some("audio")
  THEN [status |-> "ok", val |-> "a:" \o IntStr(rec.track_num[1])]
  ELSE IF rec.media_type = Some("text")
  THEN [status |-> "ok", val |-> "s:" \o IntStr(rec.track_num[1])]
  ELSE [status |-> "AssertionError", val |-> "Unrecognized media_type!  This should not happen."]

(* get_input_args: the list returned, or the exception raised.  In the       *)
(* raw_images branch the name `input` is not the record: the module binds no *)
(* such name, so it is the builtin function input, which has no attribute    *)
(* frame_rate; evaluating the list raises AttributeError.                    *)
get_input_args(rec, platform) ==
  IF rec.input_type = Some("raw_images")
  THEN [status |-> "AttributeError", val |-> << >>]
  ELSE IF rec.input_type = Some("webcam")
  THEN IF platform = "Linux"
       THEN [status |-> "ok", val |-> <<"-f", "video4linux2">>]
       ELSE [status |-> "AssertionError", val |-> << >>]
  ELSE [status |-> "ok", val |-> << >>]

-----------------------------------------------------------------------------
(* The state machine *)

NoCall == [op |-> "none", status |-> "ok", val |-> << >>]

InitWith(inputs) ==
  /\ pc = "new"
  /\ raw \in inputs
  /\ self = NoObject
  /\ err = NoErr
  /\ probed = NotProbed
  /\ pipe = None
  /\ pipeSet = FALSE
  /\ ret = NoCall

(* Input(raw) *)
Construct ==
  /\ pc = "new"
  /\ \E probe \in ProbeResults(raw.media_type) :
       LET st == Input_init(raw, probe)
       IN  /\ err' = st.err
           /\ probed' = st.probed
           /\ self' = IF st.err = NoErr THEN st.rec ELSE NoObject
           /\ pc' = IF st.err = NoErr THEN "constructed" ELSE "failed"
  /\ pipe' = None
  /\ UNCHANGED <<raw, pipeSet, ret>>

(* self.set_pipe(p) *)
SetPipe ==
  /\ pc = "constructed"
  /\ \E p \in Opt(PipePaths) :
       pipe' = p
  /\ pipeSet' = TRUE
  /\ ret' = [op |-> "set_pipe", status |-> "ok", val |-> << >>]
  /\ UNCHANGED <<pc, raw, self, err, probed>>

(* self.get_path_for_transcode() *)
GetPathForTranscode ==
  /\ pc = "constructed"
  /\ ret' = [op |-> "get_path_for_transcode", status |-> "ok",
             val |-> get_path_for_transcode(self, pipe)]
  /\ UNCHANGED <<pc, raw, self, err, probed, pipe, pipeSet>>

(* self.get_stream_specifier() *)
GetStreamSpecifier ==
  /\ pc = "constructed"
  /\ LET r == get_stream_specifier(self)
     IN  ret' = [op |-> "get_stream_specifier", status |-> r.status, val |-> r.val]
  /\ UNCHANGED <<pc, raw, self, err, probed, pipe, pipeSet>>

(* self.get_input_args() *)
GetInputArgs ==
  /\ pc = "constructed"
  /\ \E platform \in Platforms :
       LET r == get_input_args(self, platform)
       IN  ret' = [op |-> "get_input_args", status |-> r.status, val |-> r.val]
  /\ UNCHANGED <<pc, raw, self, err, probed, pipe, pipeSet>>

Next ==
  \/ Construct
  \/ SetPipe
  \/ GetPathForTranscode
  \/ GetStreamSpecifier
  \/ GetInputArgs

Init == InitWith(CallInputs)

Spec == Init /\ [][Next]_vars

(* Construction alone, over every raw input *)
InitConstruct == InitWith(RawInputs)

NextConstruct == Construct

SpecConstruct == InitConstruct /\ [][NextConstruct]_vars

-----------------------------------------------------------------------------
(* Properties.  The ones about construction are checked under              *)
(* SpecConstruct, the ones about the methods under Spec.                   *)

Done == pc # "new"
Constructed == pc = "constructed"
Failed == pc = "failed"

RawMedia(m) == raw.media_type = Some(m)

(* The input type the raw input asks for: 'file' when the key is omitted *)
RawInputType == IF raw.input_type = None THEN "file" ELSE raw.input_type[1]

(* A raw string or list value that is present and not empty *)
NonEmptyStr(v) == v # None /\ v[1] # ""
NonEmptyList(v) == v # None /\ v[1] # << >>

(* C1: every construction of a video Input either fails or leaves a record  *)
(* whose frame_rate, resolution and is_interlaced are all non-null (any     *)
(* failure is accepted here, so a violation is a constructed record with a  *)
(* null field).                                                             *)
C1_VideoFieldsNonNull ==
  (Done /\ RawMedia("video")) =>
     \/ Failed
     \/ /\ self.frame_rate # None
        /\ self.resolution # None
        /\ self.is_interlaced # None

(* C2 as stated: a text Input with start_time, end_time or filters present  *)
(* (empty or not, any input_type) fails with MalformedField naming one of   *)
(* the fields that are present.                                             *)
C2_TextPresentFieldRejected ==
  (Done /\ RawMedia("text")
     /\ (raw.start_time # None \/ raw.end_time # None \/ raw.filters # None)) =>
     /\ err.kind = "MalformedField"
     /\ \/ err.field = "start_time" /\ raw.start_time # None
        \/ err.field = "end_time" /\ raw.end_time # None
        \/ err.field = "filters" /\ raw.filters # None

(* C2 amended: a text Input with a non-empty start_time, end_time or        *)
(* filters fails with MalformedField; the field named is input_type when    *)
(* input_type is not file, and otherwise the first of start_time, end_time, *)
(* filters that is non-empty.                                               *)
C2_TextNonEmptyFieldRejected ==
  (Done /\ RawMedia("text")
     /\ (NonEmptyStr(raw.start_time) \/ NonEmptyStr(raw.end_time)
           \/ NonEmptyList(raw.filters))) =>
     /\ Failed
     /\ err.kind = "MalformedField"
     /\ err.field = IF RawInputType # "file" THEN "input_type"
                    ELSE IF NonEmptyStr(raw.start_time) THEN "start_time"
                    ELSE IF NonEmptyStr(raw.end_time) THEN "end_time"
                    ELSE "filters"

C2_Witness ==
  /\ Failed /\ RawMedia("text") /\ RawInputType = "file"
  /\ raw.start_time = Some("") /\ raw.end_time = None
  /\ NonEmptyList(raw.filters)
  /\ err = MalformedField("filters")

(* C3 as stated: a raw_images Input whose media_type is audio or text fails *)
(* with MalformedField naming media_type.                                   *)
C3_RawImagesNamesMediaType ==
  (Done /\ RawInputType = "raw_images" /\ (RawMedia("audio") \/ RawMedia("text"))) =>
     /\ Failed
     /\ err = MalformedField("media_type")

(* C3 amended: a raw_images Input whose media_type is audio or text fails   *)
(* with MalformedField; the field named is media_type for audio and         *)
(* input_type for text.                                                     *)
C3_RawImagesNonVideoRejected ==
  (Done /\ RawInputType = "raw_images" /\ (RawMedia("audio") \/ RawMedia("text"))) =>
     /\ Failed
     /\ err = MalformedField(IF RawMedia("audio") THEN "media_type" ELSE "input_type")

C3_Witness ==
  /\ Failed /\ RawInputType = "raw_images" /\ RawMedia("audio")
  /\ raw.start_time = Some("5")
  /\ err = MalformedField("media_type")

(* The rules a video input must meet besides the three video fields:        *)
(* start_time and end_time are empty unless the input type is file.         *)
VideoOtherwiseValid ==
  RawInputType # "file" => (~NonEmptyStr(raw.start_time) /\ ~NonEmptyStr(raw.end_time))

(* C6: a video Input that supplies frame_rate, resolution and is_interlaced *)
(* and is otherwise valid is constructed, none of the three detections is   *)
(* invoked, and the record holds the supplied values.                       *)
C6_ExplicitVideoFieldsKept ==
  (Done /\ RawMedia("video") /\ VideoOtherwiseValid
     /\ raw.frame_rate # None /\ raw.resolution # None /\ raw.is_interlaced # None) =>
     /\ Constructed
     /\ probed.frame_rate = << >>
     /\ probed.resolution = << >>
     /\ probed.is_interlaced = << >>
     /\ self.frame_rate = raw.frame_rate
     /\ self.resolution = raw.resolution
     /\ self.is_interlaced = raw.is_interlaced

C6_Witness ==
  /\ Constructed /\ RawMedia("video") /\ RawInputType = "external_command"
  /\ raw.frame_rate = Some(30) /\ raw.resolution = Some("1080p")
  /\ raw.is_interlaced = Some(FALSE)
  /\ self.is_interlaced = Some(FALSE)

(* C7: a video Input that omits frame_rate and for which get_frame_rate     *)
(* returns None fails with MissingRequiredField naming frame_rate.          *)
C7_UndetectedFrameRateMissing ==
  (Done /\ RawMedia("video") /\ raw.frame_rate = None) =>
     /\ probed.frame_rate # << >>
     /\ probed.frame_rate = << None >> =>
          (Failed /\ err = MissingRequiredField("frame_rate"))

C7_Witness ==
  /\ Failed /\ RawMedia("video") /\ raw.frame_rate = None
  /\ probed.frame_rate = << None >>
  /\ probed.is_interlaced = << Some(TRUE) >>
  /\ raw.resolution = None
  /\ RawInputType = "looped_file" /\ raw.start_time = Some("5")
  /\ err = MissingRequiredField("frame_rate")

(* C8: for an audio or text Input no failure names language; an omitted     *)
(* language is detected, and is "und" when the detection returns None; a    *)
(* supplied language is kept and not detected; a constructed record has a   *)
(* non-null language.                                                       *)
C8_LanguageNeverFails ==
  (Done /\ (RawMedia("audio") \/ RawMedia("text"))) =>
     /\ err.field # "language"
     /\ raw.language = None =>
          /\ probed.language # << >>
          /\ (Constructed /\ probed.language = << None >>) => self.language = Some("und")
     /\ raw.language # None =>
          /\ probed.language = << >>
          /\ Constructed => self.language = raw.language
     /\ Constructed => self.language # None

C8_Witness ==
  /\ Constructed /\ RawMedia("text") /\ raw.language = None
  /\ probed.language = << None >>
  /\ self.language = Some("und")

(* A field of the record that is unset or empty *)
Absent(name) == ~Truthy(name, self[name])

(* C9: a constructed record meets the prohibition rows of the rule table:   *)
(* text has input type file and no start_time, end_time or filters;         *)
(* raw_images is video; an input type other than file has no start_time or  *)
(* end_time.  A field is absent when it is unset or empty.                  *)
C9_ProhibitionsHold ==
  Constructed =>
     /\ self.media_type = Some("text") =>
          /\ self.input_type = Some("file")
          /\ Absent("start_time") /\ Absent("end_time") /\ Absent("filters")
     /\ self.input_type = Some("raw_images") => self.media_type = Some("video")
     /\ self.input_type # Some("file") =>
          (Absent("start_time") /\ Absent("end_time"))

C9_Witness ==
  /\ Constructed
  /\ self.media_type = Some("audio") /\ self.input_type = Some("webcam")
  /\ self.start_time = Some("") /\ self.end_time = None
  /\ self.filters = Some(<<"pad=1280:720:20:20">>)

-----------------------------------------------------------------------------
(* Properties of the methods *)

Called(op) == ret.op = op

(* C4 as stated: get_path_for_transcode returns name while set_pipe has     *)
(* never been called, and the value last given to set_pipe afterwards.      *)
C4_PathIsPipeOnceSet ==
  Called("get_path_for_transcode") =>
     ret.val = IF pipeSet THEN pipe ELSE self.name

(* C4 amended: get_path_for_transcode returns the value last given to       *)
(* set_pipe when there is one and it is not empty (neither None nor ''),    *)
(* and name otherwise; it changes no state of the record.                   *)
C4_PathIsNonEmptyPipeOrName ==
  [][ret'.op = "get_path_for_transcode" =>
        /\ ret'.val = IF pipeSet /\ pipe \notin {None, Some("")} THEN pipe ELSE self.name
        /\ ret'.status = "ok"
        /\ self' = self /\ pipe' = pipe /\ pipeSet' = pipeSet]_vars

C4_Witness ==
  /\ Called("get_path_for_transcode") /\ pipeSet
  /\ pipe = Some("/tmp/pipe")
  /\ ret.val = Some("/tmp/pipe")

(* str(x) of a float with a whole value *)
FloatStr(x) == IntStr(x) \o ".0"

(* C5: get_input_args returns ['-f', 'image2pipe', '-framerate', F] for a   *)
(* raw_images record, F the string form of its frame_rate, and [] for file, *)
(* looped_file and external_command.                                        *)
C5_InputArgs ==
  Called("get_input_args") =>
     /\ self.input_type = Some("raw_images") =>
          /\ ret.status = "ok"
          /\ ret.val = <<"-f", "image2pipe", "-framerate", FloatStr(self.frame_rate[1])>>
     /\ self.input_type \in {Some("file"), Some("looped_file"), Some("external_command")} =>
          /\ ret.status = "ok"
          /\ ret.val = << >>

Decimal == <<"0", "1", "2", "3", "4", "5", "6", "7", "8", "9">>

(* C10: get_stream_specifier of a constructed record returns "<k>:<n>", k   *)
(* being v, a, s for video, audio, text and n the track number given (0     *)
(* when omitted); the assertion is not reached.                             *)
C10_StreamSpecifier ==
  Called("get_stream_specifier") =>
     LET n == IF raw.track_num = None THEN 0 ELSE raw.track_num[1]
         k == CASE RawMedia("video") -> "v"
                [] RawMedia("audio") -> "a"
                [] RawMedia("text") -> "s"
                [] OTHER -> "?"
     IN  /\ ret.status = "ok"
         /\ n < 10 => ret.val = k \o ":" \o Decimal[n + 1]

C10_Witness ==
  /\ Called("get_stream_specifier")
  /\ RawMedia("text") /\ raw.track_num = Some(1)
  /\ ret.val = "s:1"

=============================================================================
